---- MODULE Spec2Model ----
(***************************************************************************)
(* x-analytics: the warmup scheduler (analytics/core/scheduler.py), the    *)
(* in-memory rate limiter (analytics/core/rate_limiter.py), the TTL        *)
(* configuration of the cache-wrapped compute functions (the @cached call  *)
(* sites and analytics/core/config.py) and the stale-while-revalidate      *)
(* cache core (analytics/core/cache.py, described by spec.md section 4.1). *)
(*                                                                         *)
(* Each subsystem has its own variables and its own specification; a       *)
(* specification leaves the variables of the other subsystems unchanged.   *)
(***************************************************************************)
EXTENDS Integers, Sequences, FiniteSets, TLC

\* ------------------------------------------------------------------ bounds
\* how many registrations (appends to SmartScheduler._jobs) a run makes
MaxRegs == 2
\* how many is_allowed calls a run makes
MaxCalls == 4
\* the configured limit of the limiter under check (the tests construct it with 2)
RequestsPerMinute == 2
\* the clock of the rate limiter advances by this many seconds, up to MaxTime
TimeStep == 20
MaxTime == 80
\* the cache's clock runs from 0 to CacheMaxTime
CacheMaxTime == 5
\* the ttl and stale_ttl of the cache key under check, in ticks of that clock
LogicalTtl == 2
PhysicalTtl == 4
\* how many times compute_fn is invoked in a run
MaxComputes == 3
\* how many refresh threads get_ranking may start in one behaviour
MaxRefreshes == 3
\* how many funds of a type _refresh_all_caches keeps in each ranking (50 in the
\* source), and the most funds of a type the upstream returns
MaxKept == 2
MaxFunds == 3
\* the largest max_retries the retry helpers are called with
MaxRetries == 3
\* the last minute of the week, counted from Monday 00:00, at which a trigger fires
TriggerHorizon == 2160

VARIABLES
    \* --- SmartScheduler (analytics/core/scheduler.py)
    jobstore,       \* the BackgroundScheduler's job store: the jobs with a live trigger
    pending,        \* the jobs add_job took while the scheduler was stopped, in order
    jobs_list,      \* SmartScheduler._jobs
    sch_started,    \* SmartScheduler._started
    exec_sched,     \* job id -> the executor is running an instance of the job
    exec_manual,    \* run_job_now caller -> the job whose body it is executing
    last_fire,      \* job id -> how the trigger's last firing ended
    last_reg,       \* job id -> the function of the last registration add_job took
                    \* since the scheduler last shut down
    \* --- RateLimiter (analytics/core/rate_limiter.py)
    rl_now,         \* time.time()
    rl_requests,    \* RateLimiter._requests: client id -> list of timestamps
    rl_last_cleanup,\* RateLimiter._last_cleanup
    rl_pc,          \* request thread -> where it is in is_allowed
    rl_log,         \* the is_allowed calls that returned, in the order they held the lock
    rl_rem,         \* the get_remaining call that returned last, if nothing happened since
    connected,      \* cache.connected: the shared store answers
    \* --- the @cached call sites
    wrapped,        \* cache key prefix -> the ttl and stale_ttl its wrapper was built with
    \* --- the cache core (get_or_compute)
    c_now,          \* the clock
    c_store,        \* key -> the CacheEntry the store holds
    c_lock,         \* key -> the WarmupLock key is in the store
    c_workers,      \* key -> the out-of-band recomputes in flight, by stage
    c_wlast,        \* key -> how the last out-of-band recompute ended
    c_computes,     \* how many times compute_fn was invoked; the n-th call returns payload n
    c_pc,           \* caller -> where it is in get_or_compute, and what its lookup saw
    c_res,          \* caller -> what get_or_compute returned to it
    \* --- FundRanking (analytics/modules/funds/funds.py)
    f_cache,        \* fund type -> the entry the store holds under funds:ranking:<type>
    f_lock,         \* the store holds funds:global_refresh_lock
    f_pc,           \* request -> where it is in get_ranking
    f_res,          \* request -> the status get_ranking returned to it
    f_out,          \* the response get_ranking returned in the last step, with what its lookups saw
    f_threads,      \* the run_refresh threads, counted by stage
    f_spawned,      \* how many run_refresh threads were started so far
    \* --- the trading calendar and window evaluator (analytics/core/utils.py)
    bj_now,         \* get_beijing_time(): weekday, hour, minute, second
    td_memo,        \* the lru_cache of _get_trading_days_cache
    w_res,          \* the evaluator call made at this instant, and what it returned
    sw_pc,          \* where the smart_warmup body of a market job is
    \* --- the retry helpers
    wr,             \* warmup_with_retry: its locals, and counts of what it did
    ak,             \* akshare_call_with_retry: its locals, and counts of what it did
    \* --- the route handlers (analytics/api)
    ep_out,         \* handler -> how its last call ended for the framework that called it
    \* --- the wrapped compute functions (analytics/modules)
    cs_store,       \* cache key -> the payload the store holds, and the ttl it was set with
    cs_last,        \* the last cold call: its key, what upstream gave, what the caller got
    \* --- the interval triggers of the warmup jobs, on the wall clock
    tg_job,         \* the registered job: its gate's parameters and its next run time
    tg_fired,       \* the last firing: when, in or out of session, whether func was called
    tg_prev,        \* the last firing before that one which called func
    tg_run          \* minutes of unbroken session since func was last called

schedVars == <<jobstore, pending, jobs_list, sch_started, exec_sched, exec_manual, last_fire, last_reg>>

rlVars == <<rl_now, rl_requests, rl_last_cleanup, rl_pc, rl_log, rl_rem, connected>>

cfgVars == <<wrapped>>

cacheVars == <<c_now, c_store, c_lock, c_workers, c_wlast, c_computes, c_pc, c_res>>

fundsVars == <<f_cache, f_lock, f_pc, f_res, f_out, f_threads, f_spawned>>

windowVars == <<bj_now, td_memo, w_res, sw_pc>>

retryVars == <<wr, ak>>

apiVars == <<ep_out>>

computeVars == <<cs_store, cs_last>>

triggerVars == <<tg_job, tg_fired, tg_prev, tg_run>>

vars == <<schedVars, rlVars, cfgVars, cacheVars, fundsVars, windowVars, retryVars, apiVars, computeVars, triggerVars>>

\* what the actions of one subsystem leave alone
notSched == <<rlVars, cfgVars, cacheVars, fundsVars, windowVars, retryVars, apiVars, computeVars, triggerVars>>
notRL == <<schedVars, cfgVars, cacheVars, fundsVars, windowVars, retryVars, apiVars, computeVars, triggerVars>>
notCfg == <<schedVars, rlVars, cacheVars, fundsVars, windowVars, retryVars, apiVars, computeVars, triggerVars>>
notCache == <<schedVars, rlVars, cfgVars, fundsVars, windowVars, retryVars, apiVars, computeVars, triggerVars>>
notFunds == <<schedVars, rlVars, cfgVars, cacheVars, windowVars, retryVars, apiVars, computeVars, triggerVars>>
notWindow == <<schedVars, rlVars, cfgVars, cacheVars, fundsVars, retryVars, apiVars, computeVars, triggerVars>>
notRetry == <<schedVars, rlVars, cfgVars, cacheVars, fundsVars, windowVars, apiVars, computeVars, triggerVars>>
notApi == <<schedVars, rlVars, cfgVars, cacheVars, fundsVars, windowVars, retryVars, computeVars, triggerVars>>
notCompute == <<schedVars, rlVars, cfgVars, cacheVars, fundsVars, windowVars, retryVars, apiVars, triggerVars>>
notTrigger == <<schedVars, rlVars, cfgVars, cacheVars, fundsVars, windowVars, retryVars, apiVars, computeVars>>

\* ------------------------------------------------------------- scheduler
JobIds == {"warmup:a", "warmup:b"}
Funcs == {"f1", "f2"}
Markets == {"market_cn", "market_us", "metals"}
ManualCallers == {"t1", "t2"}
NoManual == "none"

\* settings.REFRESH_INTERVALS (seconds)
REFRESH_INTERVALS ==
    [trading_hours |-> [market_cn |-> 1800, market_us |-> 1800, metals |-> 1800],
     non_trading_hours |-> [market_cn |-> 86400 * 365, market_us |-> 86400 * 365,
                            metals |-> 3600]]

Min(a, b) == IF a <= b THEN a ELSE b
Max(a, b) == IF a >= b THEN a ELSE b

\* add_market_job: the trigger's interval, the smaller cadence in whole minutes
MarketIntervalMinutes(market) ==
    Max(1, Min(REFRESH_INTERVALS.trading_hours[market],
               REFRESH_INTERVALS.non_trading_hours[market]) \div 60)

\* the cron expressions callers pass: five fields, or not
CronExprs == {<<"25", "9", "*", "*", "1-5">>, <<"0", "25", "9", "*", "*", "1-5">>}

HasJob(store, job_id) == \E i \in 1..Len(store) : store[i].id = job_id

\* the first job stored under job_id
GetJob(store, job_id) ==
    store[CHOOSE i \in 1..Len(store) :
              /\ store[i].id = job_id
              /\ \A k \in 1..(i - 1) : store[k].id # job_id]

\* a bug: the job is added beside the one already stored under its id
AddJobAppend(store, job) == Append(store, job)

\* the job store's add under replace_existing=True: update the job of that id, or add
AddJob(store, job) ==
    IF HasJob(store, job.id)
    THEN [i \in 1..Len(store) |-> IF store[i].id = job.id THEN job ELSE store[i]]
    ELSE Append(store, job)

\* BackgroundScheduler.start(): the pending jobs are added to the store in order
RECURSIVE AddPending(_, _)
AddPending(store, pend) ==
    IF pend = <<>> THEN store
    ELSE AddPending(AddJob(store, Head(pend)), Tail(pend))

\* BackgroundScheduler.get_job: among the pending jobs while the scheduler is
\* stopped, in the job store while it runs
Visible == IF sch_started THEN jobstore ELSE pending

\* self.scheduler.add_job(..., replace_existing=True); self._jobs.append(job)
Register(job) ==
    /\ Len(jobs_list) < MaxRegs
    /\ IF sch_started
       THEN jobstore' = AddJob(jobstore, job) /\ UNCHANGED pending
       ELSE pending' = Append(pending, job) /\ UNCHANGED jobstore
    /\ jobs_list' = Append(jobs_list, job.id)
    /\ last_reg' = [last_reg EXCEPT ![job.id] = job.func]
    /\ UNCHANGED <<sch_started, exec_sched, exec_manual, last_fire, notSched>>

add_market_job(job_id, func, market) ==
    Register([id |-> job_id, func |-> func, kind |-> "market", market |-> market,
              trigger |-> <<"interval", MarketIntervalMinutes(market)>>])

SimpleIntervals == {5}

add_simple_job(job_id, func, interval_minutes) ==
    Register([id |-> job_id, func |-> func, kind |-> "simple", market |-> "none",
              trigger |-> <<"interval", interval_minutes>>])

\* add_cron_job registers only an expression of five fields; any other is dropped
\* without a word, and _jobs is left alone
add_cron_job(job_id, func, cron_expr) ==
    IF Len(cron_expr) = 5
    THEN Register([id |-> job_id, func |-> func, kind |-> "cron", market |-> "none",
                   trigger |-> <<"cron", cron_expr>>])
    ELSE UNCHANGED vars

start ==
    /\ ~sch_started
    /\ sch_started' = TRUE
    /\ jobstore' = AddPending(jobstore, pending)
    /\ pending' = <<>>
    /\ UNCHANGED <<jobs_list, exec_sched, exec_manual, last_fire, last_reg, notSched>>

\* shutdown stops the scheduler; the in-memory job store drops its jobs, and the
\* registrations it held are gone with them
shutdown ==
    /\ sch_started
    /\ sch_started' = FALSE
    /\ jobstore' = <<>>
    /\ last_reg' = [j \in JobIds |-> "none"]
    /\ UNCHANGED <<pending, jobs_list, exec_sched, exec_manual, last_fire, notSched>>

\* the executor's rule, job_defaults max_instances = 1: a firing starts the body
\* only when no instance submitted by the scheduler is running under that id
ExecutorAdmits(job_id) == ~exec_sched[job_id]

\* the trigger of job_id fires and the executor runs the body
Fire(job_id) ==
    /\ sch_started
    /\ HasJob(jobstore, job_id)
    /\ ExecutorAdmits(job_id)
    /\ exec_sched' = [exec_sched EXCEPT ![job_id] = TRUE]
    /\ UNCHANGED <<jobstore, pending, jobs_list, sch_started, exec_manual, last_fire, last_reg, notSched>>

\* the trigger fires while the previous instance still runs: the run is skipped
FireDropped(job_id) ==
    /\ sch_started
    /\ HasJob(jobstore, job_id)
    /\ ~ExecutorAdmits(job_id)
    /\ last_fire' = [last_fire EXCEPT ![job_id] = "dropped"]
    /\ UNCHANGED <<jobstore, pending, jobs_list, sch_started, exec_sched, exec_manual, last_reg, notSched>>

\* a bug: the body has no except clause, and what func raises leaves it
BodyOutcomeUncaught(raises) == IF raises THEN "escaped" ELSE "returned"

\* smart_warmup / job_wrapper: try func(**kwargs), except Exception print; the
\* body returns whether func returned or raised
BodyOutcome(raises) == IF raises THEN "failed" ELSE "returned"

\* the body of the running instance ends: func returned, or raised into the
\* body's except clause; the executor releases the instance either way
FinishExec(job_id, raises) ==
    /\ exec_sched[job_id]
    /\ exec_sched' = [exec_sched EXCEPT ![job_id] = FALSE]
    /\ last_fire' = [last_fire EXCEPT ![job_id] = BodyOutcome(raises)]
    /\ UNCHANGED <<jobstore, pending, jobs_list, sch_started, exec_manual, last_reg, notSched>>

\* run_job_now: get_job, then job.func() in the caller's own thread
run_job_now(t, job_id) ==
    /\ exec_manual[t] = NoManual
    /\ HasJob(Visible, job_id)
    /\ exec_manual' = [exec_manual EXCEPT ![t] = job_id]
    /\ UNCHANGED <<jobstore, pending, jobs_list, sch_started, exec_sched, last_fire, last_reg, notSched>>

\* job.func() returns to run_job_now, which returns True
run_job_now_return(t) ==
    /\ exec_manual[t] # NoManual
    /\ exec_manual' = [exec_manual EXCEPT ![t] = NoManual]
    /\ UNCHANGED <<jobstore, pending, jobs_list, sch_started, exec_sched, last_fire, last_reg, notSched>>

\* how many executions of job_id's body are in progress
BodiesInProgress(job_id) ==
    (IF exec_sched[job_id] THEN 1 ELSE 0)
    + Cardinality({t \in ManualCallers : exec_manual[t] = job_id})

\* how many triggers the scheduler holds for job_id
TriggerCount(job_id) ==
    Cardinality({i \in 1..Len(jobstore) : jobstore[i].id = job_id})

InitSched ==
    /\ jobstore = <<>>
    /\ pending = <<>>
    /\ jobs_list = <<>>
    /\ sch_started = FALSE
    /\ exec_sched = [j \in JobIds |-> FALSE]
    /\ exec_manual = [t \in ManualCallers |-> NoManual]
    /\ last_fire = [j \in JobIds |-> "none"]
    /\ last_reg = [j \in JobIds |-> "none"]

NextSched ==
    \/ \E j \in JobIds, f \in Funcs, m \in Markets : add_market_job(j, f, m)
    \/ \E j \in JobIds, f \in Funcs, n \in SimpleIntervals : add_simple_job(j, f, n)
    \/ \E j \in JobIds, f \in Funcs, c \in CronExprs : add_cron_job(j, f, c)
    \/ start
    \/ shutdown
    \/ \E j \in JobIds : Fire(j)
    \/ \E j \in JobIds : FireDropped(j)
    \/ \E j \in JobIds, raises \in BOOLEAN : FinishExec(j, raises)
    \/ \E t \in ManualCallers, j \in JobIds : run_job_now(t, j)
    \/ \E t \in ManualCallers : run_job_now_return(t)


\* ----------------------------------------------------------- rate limiter
Clients == {"ip1", "ip2"}
Threads == {"h1", "h2"}
Idle == [pc |-> "idle", client |-> "none", now |-> 0]

\* RateLimiter.__init__: window_size and the default cleanup_interval
window_size == 60
cleanup_interval == 60

\* [ts for ts in requests if ts > cutoff]
Prune(requests, cutoff) == SelectSeq(requests, LAMBDA ts : ts > cutoff)

\* RateLimiter._cleanup: prune every client's list, delete the empty ones
Cleanup(reqs, cutoff_time) ==
    LET kept == {c \in DOMAIN reqs : Prune(reqs[c], cutoff_time) # <<>>}
    IN [c \in kept |-> Prune(reqs[c], cutoff_time)]

\* self._requests[client_id] of a defaultdict(list)
Lookup(reqs, client_id) == IF client_id \in DOMAIN reqs THEN reqs[client_id] ELSE <<>>

\* a bug: the limit is compared with > instead of >=
OverLimitOffByOne(requests) == Len(requests) > RequestsPerMinute

\* len(requests) >= self.requests_per_minute
OverLimit(requests) == Len(requests) >= RequestsPerMinute

\* a bug: a refused call records its timestamp as well
RecordAlways(requests, now, allowed) == Append(requests, now)

\* lines 63-68: only a call that is allowed appends its timestamp
Record(requests, now, allowed) ==
    IF allowed THEN Append(requests, now) ELSE requests

NoRemaining == [client |-> "none"]

\* is_allowed, lines 47-48: the clock is read before the lock is taken
is_allowed_enter(th, client_id) ==
    /\ rl_pc[th] = Idle
    /\ Len(rl_log) + Cardinality({h \in Threads : rl_pc[h] # Idle}) < MaxCalls
    /\ rl_pc' = [rl_pc EXCEPT ![th] = [pc |-> "entered", client |-> client_id, now |-> rl_now]]
    /\ rl_rem' = NoRemaining
    /\ UNCHANGED <<rl_now, rl_requests, rl_last_cleanup, rl_log, connected, notRL>>

\* is_allowed, lines 50-68: the body, under self._lock
is_allowed_body(th) ==
    /\ rl_pc[th].pc = "entered"
    /\ LET now == rl_pc[th].now
           client_id == rl_pc[th].client
           window_start == now - window_size
           due == now - rl_last_cleanup > cleanup_interval
           cleaned == IF due THEN Cleanup(rl_requests, window_start) ELSE rl_requests
           requests == Prune(Lookup(cleaned, client_id), window_start)
           allowed == ~OverLimit(requests)
           stored == Record(requests, now, allowed)
       IN /\ rl_last_cleanup' = IF due THEN now ELSE rl_last_cleanup
          /\ rl_requests' = [c \in DOMAIN cleaned \cup {client_id} |->
                                IF c = client_id THEN stored ELSE cleaned[c]]
          /\ rl_log' = Append(rl_log, [client |-> client_id, t |-> now, done |-> rl_now,
                                       allowed |-> allowed])
    /\ rl_pc' = [rl_pc EXCEPT ![th] = Idle]
    /\ rl_rem' = NoRemaining
    /\ UNCHANGED <<rl_now, connected, notRL>>

\* self._requests.get(client_id, [])
RequestsGet(reqs, client_id) ==
    IF client_id \in DOMAIN reqs THEN reqs[client_id] ELSE <<>>

\* the values time.time() returned up to now
ClockReads == {t \in 0..rl_now : t % TimeStep = 0}

\* get_remaining: now is the clock it read on entry (lines 72-73), at or before
\* the time it holds the lock and runs its body (lines 75-78); it writes nothing
get_remaining(client_id, now) ==
    /\ Len(rl_log) + Cardinality({h \in Threads : rl_pc[h] # Idle}) < MaxCalls
    /\ LET window_start == now - window_size
           valid_requests == Prune(RequestsGet(rl_requests, client_id), window_start)
       IN rl_rem' = [client |-> client_id, t |-> now, done |-> rl_now,
                     result |-> Max(0, RequestsPerMinute - Len(valid_requests))]
    /\ UNCHANGED <<rl_now, rl_requests, rl_last_cleanup, rl_pc, rl_log, connected, notRL>>

\* time passes
Tick ==
    /\ rl_now + TimeStep <= MaxTime
    /\ rl_now' = rl_now + TimeStep
    /\ rl_rem' = NoRemaining
    /\ UNCHANGED <<rl_requests, rl_last_cleanup, rl_pc, rl_log, connected, notRL>>

\* the shared store becomes unreachable, or reachable again
StoreFlips ==
    /\ connected' = ~connected
    /\ UNCHANGED <<rl_now, rl_requests, rl_last_cleanup, rl_pc, rl_log, rl_rem, notRL>>

InitRL ==
    /\ rl_now = 0
    /\ rl_requests = <<>>
    /\ rl_last_cleanup = 0
    /\ rl_pc = [h \in Threads |-> Idle]
    /\ rl_log = <<>>
    /\ rl_rem = NoRemaining
    /\ connected = TRUE

NextRL ==
    \/ \E th \in Threads, c \in Clients : is_allowed_enter(th, c)
    \/ \E th \in Threads : is_allowed_body(th)
    \/ Tick
    \/ StoreFlips

\* the limiter with its reader: is_allowed and get_remaining calls, and the clock
NextRLRead ==
    \/ \E th \in Threads, c \in Clients : is_allowed_enter(th, c)
    \/ \E th \in Threads : is_allowed_body(th)
    \/ \E c \in Clients, now \in ClockReads : get_remaining(c, now)
    \/ Tick

\* ------------------------------------------------- the @cached call sites
\* settings.CACHE_TTL: the logical TTL, in seconds, of the categories the call sites use
CACHE_TTL ==
    [market_overview |-> 7200, market |-> 7200, fear_greed |-> 7200, leaders |-> 7200,
     metals |-> 7200, bonds |-> 7200, market_heat |-> 7200, funds |-> 86400]

\* settings.STALE_TTL_RATIO
STALE_TTL_RATIO == 24

Site(module, key, ttl, stale_ttl) ==
    [module |-> module, key |-> key, ttl |-> ttl, stale_ttl |-> stale_ttl]

\* the @cached(key, ttl=..., stale_ttl=...) call sites, module by module
treasury_sites ==
    { Site("market_us/treasury", "market_us:bond_yields",
           CACHE_TTL.market_overview, CACHE_TTL.market_overview * STALE_TTL_RATIO) }

us_leaders_sites ==
    { Site("market_us/leaders", "market_us:indices",
           CACHE_TTL.market_heat, CACHE_TTL.market_heat * STALE_TTL_RATIO) }

heat_sites ==
    { Site("market_us/heat", "market_us:sector_performance",
           CACHE_TTL.market_heat, CACHE_TTL.market_heat * STALE_TTL_RATIO) }

cn_leaders_sites ==
    { Site("market_cn/leaders", "market_cn:sectors:all",
           CACHE_TTL.leaders, CACHE_TTL.leaders * STALE_TTL_RATIO) }

bonds_sites ==
    { Site("market_cn/bonds", "market_cn:bonds",
           CACHE_TTL.bonds, 600),
      Site("market_cn/bonds", "market_cn:bond_analysis",
           CACHE_TTL.bonds, 600) }

cn_fear_greed_sites ==
    { Site("market_cn/fear_greed", "market_cn:fear_greed",
           CACHE_TTL.fear_greed, CACHE_TTL.fear_greed * STALE_TTL_RATIO) }

spot_price_sites ==
    { Site("metals/spot_price", "metals:spot_price",
           CACHE_TTL.metals, 7200) }

fundamentals_sites ==
    { Site("metals/fundamentals", "metals:spdr_gold_holdings_v1",
           CACHE_TTL.metals, CACHE_TTL.metals * STALE_TTL_RATIO),
      Site("metals/fundamentals", "metals:comex_gold_inventory_v1",
           CACHE_TTL.metals, CACHE_TTL.metals * STALE_TTL_RATIO),
      Site("metals/fundamentals", "metals:comex_silver_inventory_v1",
           CACHE_TTL.metals, CACHE_TTL.metals * STALE_TTL_RATIO) }

metals_fear_greed_sites ==
    { Site("metals/fear_greed", "metals:fear_greed_v3",
           CACHE_TTL.metals, CACHE_TTL.metals * STALE_TTL_RATIO),
      Site("metals/fear_greed", "metals:silver_fear_greed_v3",
           CACHE_TTL.metals, CACHE_TTL.metals * STALE_TTL_RATIO) }

gold_silver_sites ==
    { Site("metals/gold_silver", "metals:gold_silver_ratio",
           CACHE_TTL.metals, CACHE_TTL.metals * STALE_TTL_RATIO) }

hk_fear_greed_sites ==
    { Site("market_hk/fear_greed", "market_hk:fear_greed",
           CACHE_TTL.market, CACHE_TTL.market * STALE_TTL_RATIO) }

signals_sites ==
    { Site("signals/overbought_oversold", "signals:obo:cn:daily",
           CACHE_TTL.market, CACHE_TTL.market * STALE_TTL_RATIO),
      Site("signals/overbought_oversold", "signals:obo:hk:daily",
           CACHE_TTL.market, CACHE_TTL.market * STALE_TTL_RATIO),
      Site("signals/overbought_oversold", "signals:obo:us:daily",
           CACHE_TTL.market, CACHE_TTL.market * STALE_TTL_RATIO),
      Site("signals/overbought_oversold", "signals:obo:gold:daily",
           CACHE_TTL.metals, CACHE_TTL.metals * STALE_TTL_RATIO),
      Site("signals/overbought_oversold", "signals:obo:silver:daily",
           CACHE_TTL.metals, CACHE_TTL.metals * STALE_TTL_RATIO) }

fund_sites ==
    { Site("fund", "fund:top",
           43200, 43200) }

global_index_sites ==
    { Site("global_index", "global:indices",
           300, 600) }

\* every cache-wrapped compute function of the program
CachedSites ==
    treasury_sites
    \cup us_leaders_sites
    \cup heat_sites
    \cup cn_leaders_sites
    \cup bonds_sites
    \cup cn_fear_greed_sites
    \cup spot_price_sites
    \cup fundamentals_sites
    \cup metals_fear_greed_sites
    \cup gold_silver_sites
    \cup hk_fear_greed_sites
    \cup signals_sites
    \cup fund_sites
    \cup global_index_sites

Modules == {s.module : s \in CachedSites}

\* a module is imported: its decorators run and build the wrappers of its functions
ImportModule(m) ==
    /\ \E s \in CachedSites : s.module = m /\ s.key \notin DOMAIN wrapped
    /\ wrapped' = [k \in DOMAIN wrapped \cup {s.key : s \in {x \in CachedSites : x.module = m}} |->
                     IF k \in DOMAIN wrapped THEN wrapped[k]
                     ELSE LET s == CHOOSE x \in CachedSites : x.key = k
                          IN [ttl |-> s.ttl, stale_ttl |-> s.stale_ttl]]
    /\ UNCHANGED notCfg

InitCfg == wrapped = <<>>

NextCfg == \E m \in Modules : ImportModule(m)

\* ------------------------------------------------------------ cache core
Keys == {"k"}
Callers == {"r1", "r2"}

logical_ttl(key) == LogicalTtl
physical_ttl(key) == PhysicalTtl

NoEntry == [present |-> FALSE, payload |-> 0, computed_at |-> 0]
NoCall == [pc |-> "idle", key |-> "none", saw_age |-> -1, saw_payload |-> 0, computing |-> 0]
NoResult == [status |-> "none", payload |-> 0, invoked |-> FALSE, acquired |-> FALSE,
             spawned |-> FALSE]

\* a bug: the store hands out an entry whatever its age
StoreGetNoExpiry(store, key, now) == store[key]

\* GET key: the store has dropped an entry whose physical TTL (SET ... EX) has run out
StoreGet(store, key, now) ==
    IF store[key].present /\ now - store[key].computed_at < physical_ttl(key)
    THEN store[key]
    ELSE NoEntry

\* a bug: the comparison is the wrong way round
IsFreshReversed(age, key) == age > logical_ttl(key)

\* step 2: now - computed_at < logical_ttl
IsFresh(age, key) == age < logical_ttl(key)

\* a bug: the lock is taken whether or not it is held (a plain SET)
SetIfAbsentAlways(lock, key) == TRUE

\* the WarmupLock: one atomic "set if not present"; true when this caller set it
SetIfAbsent(lock, key) == ~lock[key]

\* a bug: the failed computation's error is written to the store as a result
StoreAfterRaiseCached(store, key, now) ==
    [store EXCEPT ![key] = [present |-> TRUE, payload |-> 0, computed_at |-> now]]

\* what the store holds after compute_fn raised on the cold path: no cache write
StoreAfterRaise(store, key, now) == store

\* a bug: the recompute ends without deleting the lock
LockAfterRecomputeKept(lock, key) == lock

\* the release of the WarmupLock after a recompute, success or failure: DEL
LockAfterRecompute(lock, key) == [lock EXCEPT ![key] = FALSE]

InFlight(key) == c_workers[key].computing + c_workers[key].releasing

\* get_or_compute, the lookup (steps 1, 2, 4 and the first half of 3)
Get(c, key) ==
    /\ c_pc[c].pc = "idle"
    /\ LET entry == StoreGet(c_store, key, c_now)
           age == c_now - entry.computed_at
           saw == [key |-> key,
                   saw_age |-> IF c_store[key].present
                               THEN c_now - c_store[key].computed_at ELSE -1,
                   saw_payload |-> c_store[key].payload]
       IN IF ~entry.present
          THEN \* absent or evicted: compute_fn runs in the caller
               /\ c_computes < MaxComputes
               /\ c_computes' = c_computes + 1
               /\ c_pc' = [c_pc EXCEPT ![c] =
                             [pc |-> "cold", computing |-> c_computes + 1] @@ saw]
               /\ UNCHANGED c_res
          ELSE IF IsFresh(age, key)
          THEN /\ c_pc' = [c_pc EXCEPT ![c] = [pc |-> "done", computing |-> 0] @@ saw]
               /\ c_res' = [c_res EXCEPT ![c] =
                              [NoResult EXCEPT !.status = "fresh", !.payload = entry.payload]]
               /\ UNCHANGED c_computes
          ELSE \* stale but alive: the caller goes on to the lock
               /\ c_pc' = [c_pc EXCEPT ![c] = [pc |-> "stale", computing |-> 0] @@ saw]
               /\ UNCHANGED <<c_res, c_computes>>
    /\ UNCHANGED <<c_now, c_store, c_lock, c_workers, c_wlast, notCache>>

\* step 1: compute_fn returned; the entry is stored with computed_at = now
ColdReturn(c) ==
    /\ c_pc[c].pc = "cold"
    /\ c_store' = [c_store EXCEPT ![c_pc[c].key] =
                     [present |-> TRUE, payload |-> c_pc[c].computing, computed_at |-> c_now]]
    /\ c_res' = [c_res EXCEPT ![c] = [NoResult EXCEPT !.status = "fresh",
                                          !.payload = c_pc[c].computing, !.invoked = TRUE]]
    /\ c_pc' = [c_pc EXCEPT ![c].pc = "done"]
    /\ UNCHANGED <<c_now, c_lock, c_workers, c_wlast, c_computes, notCache>>

\* step 1, compute_fn raised: the exception goes to the caller
ColdRaise(c) ==
    /\ c_pc[c].pc = "cold"
    /\ c_store' = StoreAfterRaise(c_store, c_pc[c].key, c_now)
    /\ c_res' = [c_res EXCEPT ![c] = [NoResult EXCEPT !.status = "raised", !.invoked = TRUE]]
    /\ c_pc' = [c_pc EXCEPT ![c].pc = "done"]
    /\ UNCHANGED <<c_now, c_lock, c_workers, c_wlast, c_computes, notCache>>

\* step 3: try the WarmupLock, spawn the recompute if it was acquired, return the
\* stale payload either way
StaleReturn(c) ==
    /\ c_pc[c].pc = "stale"
    /\ LET key == c_pc[c].key
           acquired == SetIfAbsent(c_lock, key)
       IN /\ acquired => c_computes < MaxComputes
          /\ c_lock' = [c_lock EXCEPT ![key] = TRUE]
          /\ c_workers' = IF acquired
                          THEN [c_workers EXCEPT ![key].computing = @ + 1,
                                                 ![key].id = c_computes + 1]
                          ELSE c_workers
          /\ c_computes' = IF acquired THEN c_computes + 1 ELSE c_computes
          /\ c_res' = [c_res EXCEPT ![c] =
                         [NoResult EXCEPT !.status = "stale", !.payload = c_pc[c].saw_payload,
                                          !.acquired = acquired, !.spawned = acquired]]
    /\ c_pc' = [c_pc EXCEPT ![c].pc = "done"]
    /\ UNCHANGED <<c_now, c_store, c_wlast, notCache>>

\* the caller takes the response; it may call again
Ack(c) ==
    /\ c_pc[c].pc = "done"
    /\ c_pc' = [c_pc EXCEPT ![c] = NoCall]
    /\ c_res' = [c_res EXCEPT ![c] = NoResult]
    /\ UNCHANGED <<c_now, c_store, c_lock, c_workers, c_wlast, c_computes, notCache>>

\* the out-of-band recompute succeeded: the entry is overwritten, computed_at = now
RecomputeWrite(key) ==
    /\ c_workers[key].computing > 0
    /\ c_store' = [c_store EXCEPT ![key] =
                     [present |-> TRUE, payload |-> c_workers[key].id, computed_at |-> c_now]]
    /\ c_workers' = [c_workers EXCEPT ![key].computing = @ - 1, ![key].releasing = @ + 1]
    /\ UNCHANGED <<c_now, c_lock, c_wlast, c_computes, c_pc, c_res, notCache>>

\* ... and then its lock is released
RecomputeRelease(key) ==
    /\ c_workers[key].releasing > 0
    /\ c_lock' = LockAfterRecompute(c_lock, key)
    /\ c_workers' = [c_workers EXCEPT ![key].releasing = @ - 1]
    /\ c_wlast' = [c_wlast EXCEPT ![key] = "ok"]
    /\ UNCHANGED <<c_now, c_store, c_computes, c_pc, c_res, notCache>>

\* the out-of-band recompute raised: logged, the entry left as it is, the lock released
RecomputeFail(key) ==
    /\ c_workers[key].computing > 0
    /\ c_lock' = LockAfterRecompute(c_lock, key)
    /\ c_workers' = [c_workers EXCEPT ![key].computing = @ - 1]
    /\ c_wlast' = [c_wlast EXCEPT ![key] = "failed"]
    /\ UNCHANGED <<c_now, c_store, c_computes, c_pc, c_res, notCache>>

\* the process running the recompute dies: nothing is written, nothing released
RecomputeCrash(key) ==
    /\ c_workers[key].computing > 0
    /\ c_workers' = [c_workers EXCEPT ![key].computing = @ - 1]
    /\ c_wlast' = [c_wlast EXCEPT ![key] = "crashed"]
    /\ UNCHANGED <<c_now, c_store, c_lock, c_computes, c_pc, c_res, notCache>>

\* the TTL of a lock whose holder is gone runs out (the lock's TTL is taken to
\* outlast every recompute that does end)
LockTtlExpires(key) ==
    /\ c_lock[key]
    /\ InFlight(key) = 0
    /\ c_lock' = [c_lock EXCEPT ![key] = FALSE]
    /\ UNCHANGED <<c_now, c_store, c_workers, c_wlast, c_computes, c_pc, c_res, notCache>>

CacheTick ==
    /\ c_now < CacheMaxTime
    /\ c_now' = c_now + 1
    /\ UNCHANGED <<c_store, c_lock, c_workers, c_wlast, c_computes, c_pc, c_res, notCache>>

InitCache ==
    /\ c_now = 0
    /\ c_store = [k \in Keys |-> NoEntry]
    /\ c_lock = [k \in Keys |-> FALSE]
    /\ c_workers = [k \in Keys |-> [computing |-> 0, releasing |-> 0, id |-> 0]]
    /\ c_wlast = [k \in Keys |-> "none"]
    /\ c_computes = 0
    /\ c_pc = [c \in Callers |-> NoCall]
    /\ c_res = [c \in Callers |-> NoResult]

NextCache ==
    \/ \E c \in Callers, k \in Keys : Get(c, k)
    \/ \E c \in Callers : ColdReturn(c)
    \/ \E c \in Callers : ColdRaise(c)
    \/ \E c \in Callers : StaleReturn(c)
    \/ \E c \in Callers : Ack(c)
    \/ \E k \in Keys : RecomputeWrite(k)
    \/ \E k \in Keys : RecomputeRelease(k)
    \/ \E k \in Keys : RecomputeFail(k)
    \/ \E k \in Keys : RecomputeCrash(k)
    \/ \E k \in Keys : LockTtlExpires(k)
    \/ CacheTick

\* ------------------------------------------------------- fund ranking
FundRequests == {"g1", "g2"}

\* the keys of FundRanking.FUND_TYPE_KEYWORDS: "all" is the unfiltered ranking,
\* the default type; "stock" is one of the keyword-filtered rankings
FUND_TYPE_KEYWORDS == {"all", "stock"}

\* the fund types get_ranking is called with; "unknown" is no key of the mapping
RequestedTypes == FUND_TYPE_KEYWORDS \cup {"unknown"}

\* the limits get_ranking is called with: the route caps them at 100 from above only
Limits == {-1, 0, 1, MaxKept + 1}

\* get_ranking: a fund type that is no key of FUND_TYPE_KEYWORDS becomes the default
NormalisedType(fund_type) ==
    IF fund_type \in FUND_TYPE_KEYWORDS THEN fund_type ELSE "all"

\* what the store holds under funds:ranking:<type>; the rankings are kept by length
AbsentEntry == [structure |-> "absent", gainers |-> 0, losers |-> 0]

\* an entry of the earlier cache layout, whose data is a list
OldEntry == [structure |-> "list", gainers |-> 0, losers |-> 0]

\* the value _refresh_all_caches writes for a type with count funds: both rankings
\* are the sorted funds cut to the first MaxKept
RankingEntry(count) ==
    [structure |-> "gainers_losers",
     gainers |-> Min(count, MaxKept), losers |-> Min(count, MaxKept)]

\* get_ranking: data is a dict whose "data" is a dict with the key "gainers"
NewStructure(data) == data.structure = "gainers_losers"

\* the length of ranking[:limit] for a ranking of length len: a negative limit
\* counts from the end of the list
SliceLen(len, limit) ==
    IF limit >= 0 THEN Min(len, limit) ELSE Max(0, len + limit)

IdleRequest == [at |-> "idle", data |-> AbsentEntry, limit |-> 0]

NoResponse ==
    [request |-> "none", status |-> "none", fund_type |-> "none", limit |-> 0,
     data |-> AbsentEntry, gainers |-> 0, losers |-> 0, lock |-> FALSE, spawned |-> FALSE]

\* FundRanking.get_ranking, to the lookup of the ranking: an entry of the new
\* structure is returned cut to limit; anything else goes on to the refresh
get_ranking_read(r, fund_type, limit) ==
    /\ f_pc[r].at = "idle"
    /\ LET cache_key == NormalisedType(fund_type)
           data == f_cache[cache_key]
       IN IF NewStructure(data)
          THEN /\ f_res' = [f_res EXCEPT ![r] = "ok"]
               /\ f_out' = [request |-> r, status |-> "ok", fund_type |-> cache_key,
                            limit |-> limit, data |-> data,
                            gainers |-> SliceLen(data.gainers, limit),
                            losers |-> SliceLen(data.losers, limit),
                            lock |-> FALSE, spawned |-> FALSE]
               /\ UNCHANGED f_pc
          ELSE /\ f_pc' = [f_pc EXCEPT ![r] = [at |-> "missed", data |-> data, limit |-> limit]]
               /\ f_res' = [f_res EXCEPT ![r] = "none"]
               /\ f_out' = NoResponse
    /\ UNCHANGED <<f_cache, f_lock, f_threads, f_spawned, notFunds>>

\* get_ranking after a miss: a lock found in the store means a refresh is running;
\* otherwise a run_refresh thread is started. Both answers are "warming_up" with
\* empty rankings.
get_ranking_refresh(r) ==
    /\ f_pc[r].at = "missed"
    /\ f_pc' = [f_pc EXCEPT ![r] = IdleRequest]
    /\ IF f_lock
       THEN /\ f_res' = [f_res EXCEPT ![r] = "busy"]
            /\ UNCHANGED <<f_threads, f_spawned>>
       ELSE /\ f_spawned < MaxRefreshes
            /\ f_res' = [f_res EXCEPT ![r] = "started"]
            /\ f_threads' = [f_threads EXCEPT !.started = @ + 1]
            /\ f_spawned' = f_spawned + 1
    /\ f_out' = [request |-> r, status |-> "warming_up", fund_type |-> "none",
                 limit |-> f_pc[r].limit, data |-> f_pc[r].data,
                 gainers |-> 0, losers |-> 0, lock |-> f_lock, spawned |-> ~f_lock]
    /\ UNCHANGED <<f_cache, f_lock, notFunds>>

\* run_refresh: cache.set(refresh_key, "1", ttl=300), its first statement
run_refresh_lock ==
    /\ f_threads.started > 0
    /\ f_lock' = TRUE
    /\ f_threads' = [f_threads EXCEPT !.started = @ - 1, !.fetching = @ + 1]
    /\ f_out' = NoResponse
    /\ UNCHANGED <<f_cache, f_pc, f_res, f_spawned, notFunds>>

\* _refresh_all_caches fetches all_funds funds, of which filtered carry the keyword
\* of the filtered type, and writes the ranking of every type
refresh_all_caches_ok(all_funds, filtered) ==
    /\ f_threads.fetching > 0
    /\ filtered <= all_funds
    /\ f_cache' = [type_name \in FUND_TYPE_KEYWORDS |->
                     IF type_name = "all" THEN RankingEntry(all_funds)
                                          ELSE RankingEntry(filtered)]
    /\ f_threads' = [f_threads EXCEPT !.fetching = @ - 1, !.ending = @ + 1]
    /\ f_out' = NoResponse
    /\ UNCHANGED <<f_lock, f_pc, f_res, f_spawned, notFunds>>

\* _refresh_all_caches fails upstream: it logs, writes nothing and returns False
refresh_all_caches_fail ==
    /\ f_threads.fetching > 0
    /\ f_threads' = [f_threads EXCEPT !.fetching = @ - 1, !.ending = @ + 1]
    /\ f_out' = NoResponse
    /\ UNCHANGED <<f_cache, f_lock, f_pc, f_res, f_spawned, notFunds>>

\* run_refresh: finally cache.delete(refresh_key)
run_refresh_unlock ==
    /\ f_threads.ending > 0
    /\ f_lock' = FALSE
    /\ f_threads' = [f_threads EXCEPT !.ending = @ - 1]
    /\ f_out' = NoResponse
    /\ UNCHANGED <<f_cache, f_pc, f_res, f_spawned, notFunds>>

\* a ranking, written with ttl CACHE_TTL.funds, leaves the store
ranking_expires(type_name) ==
    /\ f_cache[type_name] # AbsentEntry
    /\ f_cache' = [f_cache EXCEPT ![type_name] = AbsentEntry]
    /\ f_out' = NoResponse
    /\ UNCHANGED <<f_lock, f_pc, f_res, f_threads, f_spawned, notFunds>>

\* the store still holds a ranking the earlier cache layout wrote, before the first
\* refresh of this one
old_structure_entry(type_name) ==
    /\ f_spawned = 0
    /\ f_cache[type_name] = AbsentEntry
    /\ f_cache' = [f_cache EXCEPT ![type_name] = OldEntry]
    /\ f_out' = NoResponse
    /\ UNCHANGED <<f_lock, f_pc, f_res, f_threads, f_spawned, notFunds>>

InitFunds ==
    /\ f_cache = [type_name \in FUND_TYPE_KEYWORDS |-> AbsentEntry]
    /\ f_lock = FALSE
    /\ f_pc = [r \in FundRequests |-> IdleRequest]
    /\ f_res = [r \in FundRequests |-> "none"]
    /\ f_out = NoResponse
    /\ f_threads = [started |-> 0, fetching |-> 0, ending |-> 0]
    /\ f_spawned = 0

NextFunds ==
    \/ \E r \in FundRequests, fund_type \in RequestedTypes, limit \in Limits :
           get_ranking_read(r, fund_type, limit)
    \/ \E r \in FundRequests : get_ranking_refresh(r)
    \/ run_refresh_lock
    \/ \E all_funds \in 1..MaxFunds, filtered \in 0..MaxFunds :
           refresh_all_caches_ok(all_funds, filtered)
    \/ refresh_all_caches_fail
    \/ run_refresh_unlock
    \/ \E type_name \in FUND_TYPE_KEYWORDS : ranking_expires(type_name)
    \/ \E type_name \in FUND_TYPE_KEYWORDS : old_structure_entry(type_name)

\* ------------------------------------- trading calendar and window evaluator
\* the instants the clock passes through: every hour of every day of one week, at
\* the minutes and seconds around each boundary the code compares against
ClockMinutes == {0, 1, 5, 29, 30, 31, 59}
ClockSeconds == {0, 30}

\* datetime.time(h, m), and the time of day of an instant, in seconds
T(h, m) == h * 3600 + m * 60
TimeOf(now) == now.h * 3600 + now.m * 60 + now.s

\* settings.TRADING_HOURS
TRADING_HOURS ==
    [market_cn |-> [morning |-> <<T(9, 30), T(11, 30)>>,
                    afternoon |-> <<T(13, 0), T(15, 0)>>,
                    weekdays_only |-> TRUE],
     market_us |-> [session |-> <<T(21, 30), T(4, 0)>>,
                    weekdays_only |-> TRUE,
                    cross_midnight |-> TRUE],
     metals |-> [session |-> <<T(0, 0), T(23, 59)>>,
                 weekdays_only |-> FALSE]]

\* the markets callers ask about: the configured ones and one that is not
WindowMarkets == {"market_cn", "market_us", "metals", "market_hk"}

\* dict.get(key, default)
ConfigGet(config, key, default) ==
    IF key \in DOMAIN config THEN config[key] ELSE default

\* a bug: the wrapped window is tested with "and", as a same-day window is
InCrossMidnightSessionAnd(t, session_start, session_end) ==
    t >= session_start /\ t <= session_end

\* current_time >= session_start or current_time <= session_end
InCrossMidnightSession(t, session_start, session_end) ==
    t >= session_start \/ t <= session_end

is_trading_hours(market, now) ==
    IF market \notin DOMAIN TRADING_HOURS THEN FALSE
    ELSE LET config == TRADING_HOURS[market]
             current_time == TimeOf(now)
         IN  IF ConfigGet(config, "weekdays_only", TRUE) /\ now.wd >= 5 THEN FALSE
             ELSE IF market = "market_cn"
                  THEN \/ config.morning[1] <= current_time
                          /\ current_time <= config.morning[2]
                       \/ config.afternoon[1] <= current_time
                          /\ current_time <= config.afternoon[2]
             ELSE IF ConfigGet(config, "cross_midnight", FALSE)
                  THEN InCrossMidnightSession(current_time, config.session[1],
                                              config.session[2])
             ELSE config.session[1] <= current_time /\ current_time <= config.session[2]

\* REFRESH_INTERVALS[...].get(market, default)
IntervalGet(table, market, default) ==
    IF market \in DOMAIN table THEN table[market] ELSE default

get_refresh_interval(market, now) ==
    IF is_trading_hours(market, now)
    THEN IntervalGet(REFRESH_INTERVALS.trading_hours, market, 300)
    ELSE IntervalGet(REFRESH_INTERVALS.non_trading_hours, market, 1800)

\* what ak.tool_trade_date_hist_sina() may do when _get_trading_days_cache calls it:
\* raise, return no dates, or return the trading dates of the week (its Wednesday
\* a holiday). A date of the week is its weekday, 0 = Monday.
SourceOutcomes == {"raises", "no_dates", "dates"}
NoMemo == [cached |-> FALSE, dates |-> {}]
Memo(trading_days) == [cached |-> TRUE, dates |-> trading_days]

get_trading_days_cache(outcome) ==
    IF outcome = "dates" THEN {0, 1, 3, 4} ELSE {}

\* a bug: an empty calendar is consulted like any other, and no date is in it
TradingDayLookupStrict(d, trading_days) == d \in trading_days

\* is_trading_day after the weekend filter: the calendar decides when it has
\* dates, and every Monday-Friday date is a trading day when it has none
TradingDayLookup(d, trading_days) ==
    IF trading_days # {} THEN d \in trading_days ELSE TRUE

is_trading_day(d, trading_days) ==
    IF d >= 5 THEN FALSE ELSE TradingDayLookup(d, trading_days)

\* a bug: only the weekend is excluded, the holiday calendar is not asked
NonTradingDayWeekendOnly(now, trading_days) == now.wd >= 5

\* is_trading_time's day gate: weekend, or not a trading day of the calendar
NonTradingDay(now, trading_days) ==
    \/ now.wd >= 5
    \/ ~is_trading_day(now.wd, trading_days)

\* is_trading_time; the datetimes it builds are seconds from the start of now's day
is_trading_time(market, tolerance_minutes, now, trading_days) ==
    IF market \notin DOMAIN TRADING_HOURS THEN FALSE
    ELSE LET config == TRADING_HOURS[market]
             tolerance == tolerance_minutes * 60
             current == TimeOf(now)
         IN  IF ~ConfigGet(config, "weekdays_only", TRUE) THEN TRUE
             ELSE IF NonTradingDay(now, trading_days) THEN FALSE
             ELSE IF market = "market_cn"
                  THEN /\ config.morning[1] - tolerance <= current
                       /\ current <= config.afternoon[2] + tolerance
             ELSE IF ConfigGet(config, "cross_midnight", FALSE)
                  THEN \/ current >= config.session[1] - tolerance
                       \/ current <= config.session[2] + tolerance
             ELSE /\ config.session[1] - tolerance <= current
                  /\ current <= config.session[2] + tolerance

\* the tolerances callers pass: none, the default TOLERANCE_MINUTES, and a long one
TOLERANCE_MINUTES == 15
Tolerances == {0, TOLERANCE_MINUTES, 600}

NoWindowCall == [fn |-> "none"]
SwIdle == [pc |-> "idle"]

\* the least member of a set of numbers, and whether x is its greatest
Least(S) == CHOOSE x \in S : \A y \in S : x <= y
IsLast(S, x) == \A y \in S : y <= x
After(S, x) == Least({y \in S : y > x})

\* the instant after now: the next one of the week, and Monday 00:00:00 after
\* the last one of Sunday
NextInstant(now) ==
    IF ~IsLast(ClockSeconds, now.s)
    THEN [now EXCEPT !.s = After(ClockSeconds, now.s)]
    ELSE IF ~IsLast(ClockMinutes, now.m)
    THEN [now EXCEPT !.m = After(ClockMinutes, now.m), !.s = Least(ClockSeconds)]
    ELSE [wd |-> IF now.h = 23 THEN (now.wd + 1) % 7 ELSE now.wd,
          h |-> (now.h + 1) % 24,
          m |-> Least(ClockMinutes),
          s |-> Least(ClockSeconds)]

\* the clock moves to the next instant
ClockTick ==
    /\ bj_now' = NextInstant(bj_now)
    /\ w_res' = NoWindowCall
    /\ UNCHANGED <<td_memo, sw_pc, notWindow>>

call_is_trading_hours(market) ==
    /\ sw_pc = SwIdle
    /\ w_res' = [fn |-> "is_trading_hours", market |-> market,
                 result |-> is_trading_hours(market, bj_now)]
    /\ UNCHANGED <<bj_now, td_memo, sw_pc, notWindow>>

call_get_refresh_interval(market) ==
    /\ sw_pc = SwIdle
    /\ w_res' = [fn |-> "get_refresh_interval", market |-> market,
                 result |-> get_refresh_interval(market, bj_now)]
    /\ UNCHANGED <<bj_now, td_memo, sw_pc, notWindow>>

\* is_trading_day(d): the weekend is answered without the calendar; otherwise the
\* calendar is the memoized one, or is fetched now and memoized
call_is_trading_day(d) ==
    /\ sw_pc = SwIdle
    /\ IF d >= 5
       THEN /\ w_res' = [fn |-> "is_trading_day", d |-> d, source |-> "unused",
                         result |-> is_trading_day(d, {})]
            /\ UNCHANGED td_memo
       ELSE IF td_memo.cached
       THEN /\ w_res' = [fn |-> "is_trading_day", d |-> d, source |-> "memo",
                         result |-> is_trading_day(d, td_memo.dates)]
            /\ UNCHANGED td_memo
       ELSE \E outcome \in SourceOutcomes :
               /\ td_memo' = Memo(get_trading_days_cache(outcome))
               /\ w_res' = [fn |-> "is_trading_day", d |-> d, source |-> outcome,
                            result |-> is_trading_day(d, td_memo'.dates)]
    /\ UNCHANGED <<bj_now, sw_pc, notWindow>>

\* is_trading_time(market, tolerance_minutes): it reaches is_trading_day, and with
\* it the calendar, only for a configured weekdays-only market on a weekday
call_is_trading_time(market, tolerance_minutes) ==
    /\ sw_pc = SwIdle
    /\ IF \/ market \notin DOMAIN TRADING_HOURS
          \/ ~ConfigGet(TRADING_HOURS[market], "weekdays_only", TRUE)
          \/ bj_now.wd >= 5
          \/ td_memo.cached
       THEN /\ w_res' = [fn |-> "is_trading_time", market |-> market,
                         tol |-> tolerance_minutes,
                         result |-> is_trading_time(market, tolerance_minutes, bj_now,
                                        td_memo.dates)]
            /\ UNCHANGED td_memo
       ELSE \E outcome \in SourceOutcomes :
               /\ td_memo' = Memo(get_trading_days_cache(outcome))
               /\ w_res' = [fn |-> "is_trading_time", market |-> market,
                            tol |-> tolerance_minutes,
                            result |-> is_trading_time(market, tolerance_minutes,
                                                       bj_now, td_memo'.dates)]
    /\ UNCHANGED <<bj_now, sw_pc, notWindow>>

\* a bug: every cadence of half an hour or more is gated like the 5-minute one
ShouldRunEveryFive(interval, minute) ==
    IF interval >= 300 THEN minute % 5 = 0 ELSE TRUE

\* smart_warmup's gate: whether this firing calls func, by the interval in seconds
ShouldRun(interval, minute) ==
    IF interval >= 3600 THEN minute = 0
    ELSE IF interval >= 1800 THEN minute % 30 = 0
    ELSE IF interval >= 300 THEN minute % 5 = 0
    ELSE TRUE

\* smart_warmup, to interval = get_refresh_interval(market)
smart_warmup_interval(market) ==
    /\ sw_pc = SwIdle
    /\ sw_pc' = [pc |-> "gate", market |-> market,
                 session |-> is_trading_hours(market, bj_now),
                 interval |-> get_refresh_interval(market, bj_now)]
    /\ w_res' = NoWindowCall
    /\ UNCHANGED <<bj_now, td_memo, notWindow>>

\* smart_warmup from now = get_beijing_time() on: the gate, the call of func when the
\* gate is open, and the except clause that logs what func raised
smart_warmup_gate(raises) ==
    /\ sw_pc # SwIdle
    /\ sw_pc' = SwIdle
    /\ w_res' = [fn |-> "smart_warmup", market |-> sw_pc.market,
                 session |-> sw_pc.session, interval |-> sw_pc.interval,
                 invoked |-> ShouldRun(sw_pc.interval, bj_now.m),
                 raised |-> ShouldRun(sw_pc.interval, bj_now.m) /\ raises,
                 escaped |-> FALSE]
    /\ UNCHANGED <<bj_now, td_memo, notWindow>>

InitWindow ==
    /\ bj_now = [wd |-> 0, h |-> 0, m |-> 0, s |-> 0]
    /\ td_memo = NoMemo
    /\ w_res = NoWindowCall
    /\ sw_pc = SwIdle

NextWindow ==
    \/ ClockTick
    \/ \E m \in WindowMarkets : call_is_trading_hours(m)
    \/ \E m \in WindowMarkets : call_get_refresh_interval(m)
    \/ \E d \in 0..6 : call_is_trading_day(d)
    \/ \E m \in WindowMarkets, tol \in Tolerances : call_is_trading_time(m, tol)
    \/ \E m \in WindowMarkets : smart_warmup_interval(m)
    \/ \E raises \in BOOLEAN : smart_warmup_gate(raises)

\* ------------------------------------------------------ the retry helpers
\* range(max_retries) has another attempt
InRange(attempt, max_retries) == attempt < max_retries

\* a bug: the first failure is final, whatever max_retries is
AfterWarmupRaiseGiveUp(attempt, max_retries) == "return_false"

\* warmup_with_retry's except clause: sleep and try again, or give up at the last
AfterWarmupRaise(attempt, max_retries) ==
    IF attempt < max_retries - 1 THEN "sleep" ELSE "return_false"

WrIdle ==
    [pc |-> "idle", max_retries |-> 0, attempt |-> 0, calls |-> 0, fails |-> 0,
     slept |-> 0, result |-> "none"]

\* warmup_with_retry(func, name, max_retries) is called; an empty range falls to
\* the return False after the loop
warmup_with_retry(max_retries) ==
    /\ wr.pc \in {"idle", "done"}
    /\ wr' = IF InRange(0, max_retries)
             THEN [WrIdle EXCEPT !.pc = "try", !.max_retries = max_retries]
             ELSE [WrIdle EXCEPT !.pc = "done", !.max_retries = max_retries,
                                 !.result = "false"]
    /\ UNCHANGED <<ak, notRetry>>

\* one attempt: warmup_cache(func, ...) returns, or raises into the except clause
warmup_attempt(raises) ==
    /\ wr.pc = "try"
    /\ wr' = IF ~raises
             THEN [wr EXCEPT !.pc = "done", !.calls = @ + 1, !.result = "true"]
             ELSE IF AfterWarmupRaise(wr.attempt, wr.max_retries) = "sleep"
             THEN [wr EXCEPT !.pc = "sleep", !.calls = @ + 1, !.fails = @ + 1]
             ELSE [wr EXCEPT !.pc = "done", !.calls = @ + 1, !.fails = @ + 1,
                             !.result = "false"]
    /\ UNCHANGED <<ak, notRetry>>

\* time.sleep(2 ** attempt) ends and the loop takes the next attempt
warmup_sleep ==
    /\ wr.pc = "sleep"
    /\ wr' = IF InRange(wr.attempt + 1, wr.max_retries)
             THEN [wr EXCEPT !.pc = "try", !.attempt = @ + 1,
                             !.slept = @ + 2 ^ wr.attempt]
             ELSE [wr EXCEPT !.pc = "done", !.attempt = @ + 1,
                             !.slept = @ + 2 ^ wr.attempt, !.result = "false"]
    /\ UNCHANGED <<ak, notRetry>>

\* the error messages func raises with, as the words of str(e)
ErrorMessages ==
    { <<"Connection", "aborted">>,
      <<"Expecting", "value">>,
      <<"symbol", "not", "found">>,
      <<"KeyError">> }

\* str.lower() on the words that occur
Lower(word) ==
    CASE word = "Connection" -> "connection"
      [] word = "Expecting" -> "expecting"
      [] word = "KeyError" -> "keyerror"
      [] OTHER -> word

retryable_error_keywords ==
    {"connection", "timeout", "disconnected", "reset", "refused", "aborted",
     "remotedisconnected", "closed", "eof", "broken pipe", "network",
     "temporary failure", "object literal", "not terminated", "json", "decode",
     "expecting", "unterminated"}

\* a bug: every error is taken for a transient one
is_retryable_error_any(msg) == TRUE

\* any(keyword in error_msg for keyword in retryable_error_keywords), word by word
is_retryable_error(msg) ==
    \E i \in 1..Len(msg) : Lower(msg[i]) \in retryable_error_keywords

NoMessage == <<>>

AkIdle ==
    [pc |-> "idle", max_retries |-> 0, use_throttle |-> FALSE, attempt |-> 0,
     calls |-> 0, gates |-> 0, sleeps |-> 0, retryable_fails |-> 0,
     last_exception |-> NoMessage, last_raised |-> NoMessage, thrown |-> NoMessage,
     result |-> "none"]

\* akshare_call_with_retry(func, max_retries=..., use_throttle=...) is called; with
\* an empty range the raise of last_exception = None after the loop is a TypeError
akshare_call_with_retry(max_retries, use_throttle) ==
    /\ ak.pc \in {"idle", "done"}
    /\ ak' = IF InRange(0, max_retries)
             THEN [AkIdle EXCEPT !.pc = "try", !.max_retries = max_retries,
                                 !.use_throttle = use_throttle]
             ELSE [AkIdle EXCEPT !.pc = "done", !.max_retries = max_retries,
                                 !.use_throttle = use_throttle,
                                 !.result = "raised_type_error"]
    /\ UNCHANGED <<wr, notRetry>>

\* if use_throttle: throttler.wait_if_needed(), counted in gates
Throttle(a) == IF a.use_throttle THEN [a EXCEPT !.gates = @ + 1] ELSE a

\* a bug: the delay is slept after the last attempt as well
SleepsAfterAlways(attempt, max_retries) == TRUE

\* if attempt < max_retries - 1: ... time.sleep(delay)
SleepsAfter(attempt, max_retries) == attempt < max_retries - 1

\* one attempt ends well: return func(*args, **kwargs)
akshare_attempt_returns ==
    /\ ak.pc = "try"
    /\ ak' = [Throttle(ak) EXCEPT !.pc = "done", !.calls = @ + 1, !.result = "returned"]
    /\ UNCHANGED <<wr, notRetry>>

\* one attempt raises: an error that is not retryable is raised again at once; a
\* retryable one is slept on, or at the last attempt raised after the loop
akshare_attempt_raises(msg) ==
    /\ ak.pc = "try"
    /\ LET a == [Throttle(ak) EXCEPT !.calls = @ + 1, !.last_exception = msg,
                                     !.last_raised = msg]
       IN ak' = IF ~is_retryable_error(msg)
                THEN [a EXCEPT !.pc = "done", !.thrown = msg, !.result = "raised"]
                ELSE IF SleepsAfter(ak.attempt, ak.max_retries)
                THEN [a EXCEPT !.pc = "sleep", !.retryable_fails = @ + 1]
                ELSE [a EXCEPT !.pc = "done", !.retryable_fails = @ + 1,
                               !.thrown = a.last_exception, !.result = "raised"]
    /\ UNCHANGED <<wr, notRetry>>

\* time.sleep(delay) ends and the loop takes the next attempt, or, the range
\* used up, raise last_exception is reached
akshare_sleep ==
    /\ ak.pc = "sleep"
    /\ ak' = IF InRange(ak.attempt + 1, ak.max_retries)
             THEN [ak EXCEPT !.pc = "try", !.attempt = @ + 1, !.sleeps = @ + 1]
             ELSE [ak EXCEPT !.pc = "done", !.sleeps = @ + 1,
                             !.thrown = ak.last_exception, !.result = "raised"]
    /\ UNCHANGED <<wr, notRetry>>

InitRetry ==
    /\ wr = WrIdle
    /\ ak = AkIdle

NextRetry ==
    \/ \E n \in 0..MaxRetries : warmup_with_retry(n)
    \/ \E raises \in BOOLEAN : warmup_attempt(raises)
    \/ warmup_sleep
    \/ \E n \in 0..MaxRetries, use_throttle \in BOOLEAN :
           akshare_call_with_retry(n, use_throttle)
    \/ akshare_attempt_returns
    \/ \E msg \in ErrorMessages : akshare_attempt_raises(msg)
    \/ akshare_sleep


\* ---------------------------------------------------------------------------
\* Route handlers: analytics/core/decorators.py and analytics/api/*.py
\* ---------------------------------------------------------------------------

\* how a call ends: it returns a value, or raises an Exception whose str() is text
Returned(value) == [kind |-> "return", value |-> value]
Raised(class, text) == [kind |-> "raise", class |-> class, text |-> text]

\* the response envelope {status, data, message} of the cache-aware handlers
wrap_response(status, data, message) ==
    [status |-> status, data |-> data, message |-> message]

\* what the modules hand to their route: envelopes of each status, and the bare
\* list that get_spot_prices and the market-heat functions return
Payloads ==
    { wrap_response("ok", "rows", ""),
      wrap_response("warming_up", "none", "warming up"),
      wrap_response("error", "none", "no data"),
      [rows |-> "bare_list"] }

\* str(e) of the exceptions the modules raise; Exception() has the empty text
ExceptionTexts == {"", "timeout"}

BodyResults ==
    {Returned(p) : p \in Payloads} \cup {Raised("Exception", t) : t \in ExceptionTexts}

\* a wrapper without its except clause
safe_endpoint_uncaught(result) == result

\* decorators.py:24-29
safe_endpoint(result) ==
    IF result.kind = "raise"
    THEN Returned(wrap_response("error", "none", result.text))
    ELSE result

\* decorators.py:44-49: the same around an awaited body
safe_async_endpoint(result) ==
    IF result.kind = "raise"
    THEN Returned(wrap_response("error", "none", result.text))
    ELSE result

\* api/market_cn.py and api/metals.py: try / except Exception / wrap_response
inline_wrap_response(result) ==
    IF result.kind = "raise"
    THEN Returned(wrap_response("error", "none", result.text))
    ELSE result

\* api/funds.py:31-36: the envelope is written out, with an empty data list
get_fund_ranking(result) ==
    IF result.kind = "raise"
    THEN Returned([status |-> "error", message |-> result.text, data |-> "empty_list"])
    ELSE result

\* api/market_us.py: the except clause raises HTTPException(500, detail=str(e))
inline_http_exception(result) ==
    IF result.kind = "raise"
    THEN Raised("HTTPException", result.text)
    ELSE result

\* the routes, by the way each guards its body
EnvelopeHandlers ==
    {"get_hk_indices", "get_treasury_yields", "get_fear_greed_history",
     "get_fund_ranking"}

Handlers == EnvelopeHandlers \cup {"get_market_leaders"}

Guard(handler, result) ==
    CASE handler = "get_hk_indices" -> safe_endpoint(result)
      [] handler = "get_treasury_yields" -> inline_wrap_response(result)
      [] handler = "get_fear_greed_history" -> inline_wrap_response(result)
      [] handler = "get_fund_ranking" -> get_fund_ranking(result)
      [] OTHER -> inline_http_exception(result)

NoCallYet == [kind |-> "none"]

\* one request: the body ends with result, the guard decides what the framework sees
Request(handler, result) ==
    /\ ep_out' = [ep_out EXCEPT ![handler] = [body |-> result, seen |-> Guard(handler, result)]]
    /\ UNCHANGED notApi

InitApi == ep_out = [h \in Handlers |-> [body |-> NoCallYet, seen |-> NoCallYet]]

NextApi == \E h \in Handlers, result \in BodyResults : Request(h, result)


\* ---------------------------------------------------------------------------
\* The wrapped compute functions: analytics/modules/*, cold path of @cached
\* ---------------------------------------------------------------------------

\* what the upstream call of a compute function gives: a frame with rows, an
\* empty frame, or an exception (a timeout)
FetchOutcomes == {"rows", "empty", "raises"}

Result(key) == [shape |-> "result", of |-> key]
ErrorPayload(fields, text) == [shape |-> "error", fields |-> fields, error |-> text]
EmptyList == [shape |-> "empty_list"]

\* market_cn/bonds.py:26-94: every failure inside the try, the ValueError of the
\* empty frame included, ends in the except clause, which returns a dict
get_treasury_yields(fetch) ==
    CASE fetch = "rows" -> Returned(Result("market_cn:bonds"))
      [] fetch = "empty" -> Returned(ErrorPayload("yield_curve", "empty data"))
      [] OTHER -> Returned(ErrorPayload("yield_curve", "timeout"))

\* market_cn/leaders.py:32-61
get_all_sectors(fetch) ==
    CASE fetch = "rows" -> Returned(Result("market_cn:sectors:all"))
      [] fetch = "empty" -> Returned(ErrorPayload("sectors", "empty data"))
      [] OTHER -> Returned(ErrorPayload("sectors", "timeout"))

\* market_us/treasury.py:29-77: an empty frame and an exception both give []
get_us_bond_yields(fetch) ==
    IF fetch = "rows" THEN Returned(Result("market_us:bond_yields")) ELSE Returned(EmptyList)

ComputeSites == treasury_sites \cup cn_leaders_sites \cup {s \in bonds_sites : s.key = "market_cn:bonds"}

ComputeKeys == {s.key : s \in ComputeSites}

SiteOf(key) == CHOOSE s \in ComputeSites : s.key = key

Compute(key, fetch) ==
    CASE key = "market_cn:bonds" -> get_treasury_yields(fetch)
      [] key = "market_cn:sectors:all" -> get_all_sectors(fetch)
      [] OTHER -> get_us_bond_yields(fetch)

NoValue == [shape |-> "none"]
NoColdCall == [key |-> "none"]

\* the successful-write path of the cache core: reached when compute_fn returns,
\* it sets the returned payload with the site's physical ttl; a raise writes nothing
ColdWrite(store, key, outcome) ==
    IF outcome.kind = "return"
    THEN [store EXCEPT ![key] = [value |-> outcome.value, ttl |-> SiteOf(key).stale_ttl]]
    ELSE store

\* a call of the wrapped function that finds no entry for its key
ColdCall(key, fetch) ==
    /\ cs_store[key] = NoValue
    /\ cs_store' = ColdWrite(cs_store, key, Compute(key, fetch))
    /\ cs_last' = [key |-> key, fetch |-> fetch, got |-> Compute(key, fetch)]
    /\ UNCHANGED notCompute

\* the store drops an entry whose ttl ran out
EntryExpires(key) ==
    /\ cs_store[key] # NoValue
    /\ cs_store' = [cs_store EXCEPT ![key] = NoValue]
    /\ cs_last' = NoColdCall
    /\ UNCHANGED notCompute

InitCompute ==
    /\ cs_store = [k \in ComputeKeys |-> NoValue]
    /\ cs_last = NoColdCall

NextCompute ==
    \/ \E k \in ComputeKeys, fetch \in FetchOutcomes : ColdCall(k, fetch)
    \/ \E k \in ComputeKeys : EntryExpires(k)


\* ---------------------------------------------------------------------------
\* The interval triggers of the warmup jobs on the wall clock:
\* SmartScheduler.add_market_job (analytics/core/scheduler.py) and
\* CacheScheduler.add_warmup_job (analytics/scheduler.py)
\* ---------------------------------------------------------------------------

\* wall-clock times are minutes of the week, from Monday 00:00
InstantOf(t) ==
    [wd |-> (t \div 1440) % 7, h |-> (t % 1440) \div 60, m |-> t % 60, s |-> 0]

\* the times at which a job is registered: Monday 09:00, 09:07 and 09:30
RegistrationTimes == {9 * 60, 9 * 60 + 7, 9 * 60 + 30}

\* the (trading_interval_minutes, non_trading_interval_minutes) of add_warmup_job:
\* its defaults, and those of the jobs setup_default_warmup_jobs registers
NON_TRADING_INTERVAL == 1440
WarmupIntervals == {<<1, 30>>, <<5, NON_TRADING_INTERVAL>>, <<60, NON_TRADING_INTERVAL>>}

NoJob == [kind |-> "none"]
NoFiring == [kind |-> "none"]
NoInvocation == [at |-> -1, session |-> FALSE]

\* IntervalTrigger(minutes=every) created at t0: the first run is one interval
\* after its creation, and each later one an interval after the last
FirstRun(t0, every) == t0 + every

add_market_job_at(market, t0) ==
    /\ tg_job = NoJob
    /\ tg_job' = [kind |-> "market", market |-> market,
                  every |-> MarketIntervalMinutes(market), non_trading |-> 0,
                  next |-> FirstRun(t0, MarketIntervalMinutes(market))]
    /\ UNCHANGED <<tg_fired, tg_prev, tg_run, notTrigger>>

add_warmup_job_at(trading_interval_minutes, non_trading_interval_minutes, t0) ==
    /\ tg_job = NoJob
    /\ tg_job' = [kind |-> "warmup", market |-> "market_cn",
                  every |-> trading_interval_minutes,
                  non_trading |-> non_trading_interval_minutes,
                  next |-> FirstRun(t0, trading_interval_minutes)]
    /\ UNCHANGED <<tg_fired, tg_prev, tg_run, notTrigger>>

\* analytics/scheduler.py:66-69: Monday to Friday, 09:30 to 15:00
legacy_is_trading_hours(now) ==
    /\ now.wd < 5
    /\ \/ now.h = 9 /\ now.m >= 30
       \/ 10 <= now.h /\ now.h < 15
       \/ now.h = 15 /\ now.m = 0

\* analytics/scheduler.py:72-75: out of trading hours the firing is skipped
\* unless the minute of the hour is a multiple of the interval
LegacyShouldRun(now, non_trading_interval_minutes) ==
    \/ legacy_is_trading_hours(now)
    \/ now.m % non_trading_interval_minutes = 0

\* whether the market of the job is in session at now, as its body sees it
InSession(job, now) ==
    IF job.kind = "market" THEN is_trading_hours(job.market, now)
    ELSE legacy_is_trading_hours(now)

\* whether the body of the job calls func when it runs at now
Invokes(job, now) ==
    IF job.kind = "market"
    THEN ShouldRun(get_refresh_interval(job.market, now), now.m)
    ELSE LegacyShouldRun(now, job.non_trading)

\* the trigger fires at its next run time and the body smart_warmup runs
TriggerFires ==
    /\ tg_job # NoJob
    /\ tg_job.next <= TriggerHorizon
    /\ LET now == InstantOf(tg_job.next)
           session == InSession(tg_job, now)
           invoked == Invokes(tg_job, now)
       IN  /\ tg_fired' = [kind |-> tg_job.kind, at |-> tg_job.next, session |-> session,
                           invoked |-> invoked]
           /\ tg_prev' = IF tg_fired.kind # "none" /\ tg_fired.invoked
                         THEN [at |-> tg_fired.at, session |-> tg_fired.session]
                         ELSE tg_prev
           /\ tg_run' = IF invoked \/ ~session THEN 0 ELSE tg_run + tg_job.every
    /\ tg_job' = [tg_job EXCEPT !.next = @ + tg_job.every]
    /\ UNCHANGED notTrigger

InitTrigger ==
    /\ tg_job = NoJob
    /\ tg_fired = NoFiring
    /\ tg_prev = NoInvocation
    /\ tg_run = 0

NextTrigger ==
    \/ \E market \in Markets, t0 \in RegistrationTimes : add_market_job_at(market, t0)
    \/ \E iv \in WarmupIntervals, t0 \in RegistrationTimes :
           add_warmup_job_at(iv[1], iv[2], t0)
    \/ TriggerFires

Init ==
    /\ InitSched /\ InitRL /\ InitCfg /\ InitCache /\ InitFunds /\ InitWindow
    /\ InitRetry /\ InitApi /\ InitCompute /\ InitTrigger

SpecSched == Init /\ [][NextSched]_vars

SpecRL == Init /\ [][NextRL]_vars

SpecRLRead == Init /\ [][NextRLRead]_vars

SpecCfg == Init /\ [][NextCfg]_vars

SpecCache == Init /\ [][NextCache]_vars

SpecFunds == Init /\ [][NextFunds]_vars

SpecWindow == Init /\ [][NextWindow]_vars

SpecRetry == Init /\ [][NextRetry]_vars

\* func returns or raises, and time.sleep returns
SpecRetryFair ==
    /\ SpecRetry
    /\ WF_vars(akshare_attempt_returns \/ \E msg \in ErrorMessages : akshare_attempt_raises(msg))
    /\ WF_vars(akshare_sleep)

SpecApi == Init /\ [][NextApi]_vars

SpecCompute == Init /\ [][NextCompute]_vars

SpecTrigger == Init /\ [][NextTrigger]_vars

\* C9: while the scheduler runs, every job_id registered since it was created or
\* last shut down has exactly one trigger in the job store, bound to the function
\* of the latest registration of that id, and no other id has a trigger.
IdempotentRegistration ==
    sch_started =>
        \A j \in JobIds :
            /\ last_reg[j] # "none" =>
                  /\ TriggerCount(j) = 1
                  /\ GetJob(jobstore, j).func = last_reg[j]
            /\ last_reg[j] = "none" => TriggerCount(j) = 0

\* a job_id registered twice, first with f1 and then with f2, whose one trigger
\* is bound to f2
RegisteredTwice ==
    \E j \in JobIds :
        /\ sch_started
        /\ Cardinality({i \in 1..Len(jobs_list) : jobs_list[i] = j}) >= 2
        /\ TriggerCount(j) = 1
        /\ GetJob(jobstore, j).func = "f2"

\* C10: at most one execution of a job's body is in progress at any time,
\* however the body was started (by the trigger or by run_job_now).
NoSelfOverlap == \A j \in JobIds : BodiesInProgress(j) <= 1


\* the calls logged so far, up to the i-th, that client c made
CallsUpTo(c, i) == {j \in 1..i : rl_log[j].client = c}

\* the calls up to the i-th logged call that its client made in the bucket of width
\* window_size (floor(time / 60)) the i-th call was answered in
CallsInBucketUpTo(i) ==
    {j \in CallsUpTo(rl_log[i].client, i) :
        rl_log[j].done \div window_size = rl_log[i].done \div window_size}

\* the calls of c up to the i-th were all made and answered less than window_size
\* apart (t: the clock the call read on entry, done: the time it was answered)
SameWindow(c, i) ==
    \A j, k \in CallsUpTo(c, i) : rl_log[j].done - rl_log[k].t < window_size

FailOpen ==
    [][\A th \in Threads :
          (rl_pc[th].pc = "entered" /\ rl_pc'[th] = Idle /\ ~connected)
              => rl_log'[Len(rl_log')].allowed]_vars


\* C6: every cache-wrapped function keeps its entries for at least its logical
\* ttl, and for exactly ttl x STALE_TTL_RATIO.
TtlConfiguration ==
    \A k \in DOMAIN wrapped :
        /\ wrapped[k].stale_ttl >= wrapped[k].ttl
        /\ wrapped[k].stale_ttl = wrapped[k].ttl * STALE_TTL_RATIO


\* a caller has just looked key up (the step from idle into get_or_compute)
Looked(c) == c_pc[c].pc = "idle" /\ c_pc'[c].pc # "idle"

\* the age of the entry the store holds under the key of c's call, as the call starts
AgeAtCall(c) == c_now - c_store[c_pc'[c].key].computed_at

InStaleWindow(c) ==
    /\ c_store[c_pc'[c].key].present
    /\ logical_ttl(c_pc'[c].key) <= AgeAtCall(c)
    /\ AgeAtCall(c) < physical_ttl(c_pc'[c].key)

Freshness ==
    [][\A c \in Callers :
          (/\ Looked(c)
           /\ c_store[c_pc'[c].key].present
           /\ AgeAtCall(c) < logical_ttl(c_pc'[c].key)
           /\ AgeAtCall(c) < physical_ttl(c_pc'[c].key)) =>
              /\ c_pc'[c].pc = "done"
              /\ c_res'[c].status = "fresh"
              /\ c_res'[c].payload = c_store[c_pc'[c].key].payload
              /\ ~c_res'[c].invoked /\ ~c_res'[c].acquired /\ ~c_res'[c].spawned
              /\ c_computes' = c_computes
              /\ c_lock' = c_lock
              /\ c_workers' = c_workers
              /\ c_store' = c_store]_vars

\* a caller was answered fresh from an entry that is one tick short of its logical ttl
FreshHit ==
    \E c \in Callers :
        /\ c_res[c].status = "fresh" /\ ~c_res[c].invoked
        /\ c_pc[c].saw_age = logical_ttl(c_pc[c].key) - 1
        /\ c_res[c].payload = c_pc[c].saw_payload
        /\ c_res[c].payload > 0

\* C3: a call that finds no entry, or one of age >= physical_ttl, invokes compute_fn
\* in the caller; when compute_fn returns, the result is stored with computed_at =
\* now and returned tagged fresh.
Eviction ==
    [][\A c \in Callers :
          /\ (/\ Looked(c)
              /\ \/ ~c_store[c_pc'[c].key].present
                 \/ AgeAtCall(c) >= physical_ttl(c_pc'[c].key)) =>
                 /\ c_pc'[c].pc = "cold"
                 /\ c_computes' = c_computes + 1
                 /\ c_pc'[c].computing = c_computes'
          /\ (c_pc[c].pc = "cold" /\ c_pc'[c].pc = "done" /\ c_res'[c].status # "raised") =>
                 /\ c_res'[c].status = "fresh"
                 /\ c_res'[c].invoked
                 /\ c_res'[c].payload = c_pc[c].computing
                 /\ c_store'[c_pc[c].key] =
                        [present |-> TRUE, payload |-> c_pc[c].computing,
                         computed_at |-> c_now]]_vars

\* an entry outlived its physical ttl and the next call computed and stored anew
ExpiredThenRecomputed ==
    \E c \in Callers :
        /\ c_res[c].status = "fresh" /\ c_res[c].invoked
        /\ c_pc[c].saw_age >= physical_ttl(c_pc[c].key)
        /\ c_res[c].payload > c_pc[c].saw_payload
        /\ c_store[c_pc[c].key].payload = c_res[c].payload
        /\ c_store[c_pc[c].key].computed_at = c_now

\* C4: when compute_fn raises on the cold path the caller gets the exception and
\* the store is as it was: nothing is written under the key.
ColdFailureWritesNothing ==
    [][\A c \in Callers :
          (c_pc[c].pc = "cold" /\ c_res'[c].status = "raised") =>
              /\ c_store' = c_store
              /\ c_pc'[c].pc = "done"
              /\ c_lock' = c_lock]_vars

\* a cold call raised and its key is still absent from the store
ColdRaised ==
    \E c \in Callers :
        /\ c_res[c].status = "raised"
        /\ c_pc[c].saw_age = -1
        /\ ~c_store[c_pc[c].key].present

\* an out-of-band recompute of key k ends in failure in this step
RecomputeFails(k) == InFlight(k)' < InFlight(k) /\ c_wlast'[k] = "failed"

\* C5: when the out-of-band recompute raises, the entry (payload and computed_at) is
\* left as it is and the lock is released; from then on the lock is held only by
\* a recompute that is in flight, so the next stale caller can take it.
BackgroundFailureKeepsEntry ==
    /\ [][\A k \in Keys : RecomputeFails(k) => c_store' = c_store /\ ~c_lock'[k]]_vars
    /\ [](\A k \in Keys : (c_wlast[k] = "failed" /\ c_lock[k]) => InFlight(k) = 1)

\* after a failed recompute a caller was again answered with the payload of the
\* first computation, tagged stale, and took the lock and spawned a new recompute
RetriedAfterFailure ==
    \E c \in Callers :
        /\ c_pc[c].pc = "done"
        /\ c_wlast[c_pc[c].key] = "failed"
        /\ c_res[c].status = "stale" /\ c_res[c].spawned
        /\ c_res[c].payload = 1
        /\ c_store[c_pc[c].key].payload = 1
        /\ c_workers[c_pc[c].key].id = 3
        /\ InFlight(c_pc[c].key) = 1


\* the run_refresh threads that have set the lock and not yet deleted it
RefreshesInFlight == f_threads.fetching + f_threads.ending

\* C11: at most one background refresh of the fund caches, hence one upstream
\* fetch, is in flight at any time.
SingleFlightFundRefresh == f_threads.fetching <= 1

\* C12: the lock key is in the store whenever a refresh is fetching upstream, and
\* it is gone once no refresh thread is left.
LockTracksRefresh ==
    /\ f_threads.fetching > 0 => f_lock
    /\ (f_threads.started + RefreshesInFlight = 0) => ~f_lock


\* the applicable cadence of a market, in minutes: its trading-hours interval when
\* the window evaluator found it in session, its non-trading-hours interval otherwise
CadenceMinutes(market, session) ==
    (IF session
     THEN IntervalGet(REFRESH_INTERVALS.trading_hours, market, 300)
     ELSE IntervalGet(REFRESH_INTERVALS.non_trading_hours, market, 1800)) \div 60

\* C13: a firing of a market job's body calls func exactly when the minute it reads
\* is divisible by the applicable cadence in minutes.
CadenceGating ==
    w_res.fn = "smart_warmup" =>
        (w_res.invoked <=>
            bj_now.m % CadenceMinutes(w_res.market, w_res.session) = 0)

\* a firing at minute 30 that found market_cn in session, on its half-hour cadence,
\* and called func
GatedFiring ==
    /\ w_res.fn = "smart_warmup"
    /\ w_res.market = "market_cn" /\ w_res.session
    /\ bj_now.m = 30 /\ w_res.invoked

\* C17: on a weekday the 21:30-04:00 session is open at every time t with
\* t >= 21:30 or t <= 04:00 and closed at every other time.
MidnightCrossingWindow ==
    (w_res.fn = "is_trading_hours" /\ w_res.market = "market_us" /\ bj_now.wd < 5) =>
        (w_res.result <=> (TimeOf(bj_now) >= T(21, 30) \/ TimeOf(bj_now) <= T(4, 0)))

\* is_trading_hours("market_us") asked on Tuesday at 00:30, inside the session
AskedAfterMidnight ==
    /\ w_res.fn = "is_trading_hours" /\ w_res.market = "market_us"
    /\ bj_now = [wd |-> 1, h |-> 0, m |-> 30, s |-> 0]
    /\ w_res.result

\* C18: metals, a 24-hour market, is in session at every instant: is_trading_hours
\* and is_trading_time return true and get_refresh_interval the trading cadence.
MetalsAlwaysInSession ==
    /\ (w_res.fn \in {"is_trading_hours", "is_trading_time"}
        /\ w_res.market = "metals") => w_res.result
    /\ (w_res.fn = "get_refresh_interval" /\ w_res.market = "metals") =>
          w_res.result = REFRESH_INTERVALS.trading_hours.metals

\* the weekdays-only markets of the configuration
WeekdaysOnlyMarkets ==
    {m \in DOMAIN TRADING_HOURS : ConfigGet(TRADING_HOURS[m], "weekdays_only", TRUE)}

\* now falls on a holiday: the calendar has dates and today is not one of them
OnHoliday == td_memo.dates # {} /\ bj_now.wd \notin td_memo.dates

\* C19: is_trading_time of a weekdays-only market is false on Saturday, on Sunday
\* and on a holiday of the calendar, whatever the tolerance.
ToleranceKeepsDayGating ==
    (/\ w_res.fn = "is_trading_time"
     /\ w_res.market \in WeekdaysOnlyMarkets
     /\ bj_now.wd >= 5 \/ OnHoliday) => ~w_res.result

\* is_trading_time asked on the holiday, one minute before the open and so within
\* the tolerance of the session
AskedOnHoliday ==
    /\ w_res.fn = "is_trading_time" /\ w_res.market = "market_cn" /\ ~w_res.result
    /\ w_res.tol = TOLERANCE_MINUTES
    /\ OnHoliday /\ bj_now.h = 9 /\ bj_now.m = 29

\* C20: is_trading_day is false for Saturday and Sunday, and true for every
\* Monday-Friday date when the calendar source raised or returned no dates.
HolidayCalendarDegradation ==
    w_res.fn = "is_trading_day" =>
        /\ w_res.d >= 5 => ~w_res.result
        /\ (w_res.d < 5 /\ w_res.source \in {"raises", "no_dates"}) => w_res.result
        /\ (w_res.d < 5 /\ w_res.source = "memo" /\ td_memo.dates = {}) => w_res.result

\* is_trading_day asked about the Wednesday while the source raises
AskedWhileSourceDown ==
    /\ w_res.fn = "is_trading_day" /\ w_res.d = 2
    /\ w_res.source = "raises" /\ w_res.result


RetryUntilSuccess ==
    /\ wr.calls <= wr.max_retries
    /\ wr.pc = "done" =>
          /\ wr.result \in {"true", "false"}
          /\ wr.result = "true" <=> wr.calls = wr.fails + 1
          /\ wr.result = "false" =>
                wr.calls = wr.max_retries /\ wr.fails = wr.max_retries
    /\ wr.pc \in {"try", "sleep"} => wr.calls = wr.fails

\* two attempts raised, the third did not, and the helper returned true
ThirdAttemptSucceeded ==
    /\ wr.pc = "done" /\ wr.result = "true"
    /\ wr.max_retries = 3 /\ wr.calls = 3 /\ wr.fails = 2

\* the error messages that hold none of the transient keywords
NonTransientMessages == { <<"symbol", "not", "found">>, <<"KeyError">> }

\* C16: akshare_call_with_retry sleeps and makes another attempt only after an
\* error whose message has a transient keyword; an error without one is raised to
\* the caller from the attempt it occurred in, with no sleep and no further call.
RetryOnlyTransient ==
    /\ ak.calls <= ak.sleeps + 1
    /\ ak.pc = "sleep" => ak.last_exception \in ErrorMessages \ NonTransientMessages
    /\ ak.last_exception \in NonTransientMessages =>
          /\ ak.pc = "done" /\ ak.result = "raised"
          /\ ak.calls = ak.sleeps + 1
          /\ ak.sleeps = ak.retryable_fails

\* after one transient error and its backoff, the second attempt raised an error
\* that is not transient, and it went to the caller with attempts to spare
NonTransientPropagated ==
    /\ ak.pc = "done" /\ ak.result = "raised"
    /\ ak.last_exception = <<"symbol", "not", "found">>
    /\ ak.max_retries = 3 /\ ak.calls = 2 /\ ak.sleeps = 1

\* C21: a route guarded by safe_endpoint, safe_async_endpoint or the same try/except
\* written out never raises to the framework: when its body raises an exception
\* the framework is handed an envelope whose status is "error" and whose message
\* is the exception's text, and when its body returns, the returned value is
\* handed on as it is.
NoRawExceptions ==
    \A h \in EnvelopeHandlers :
        LET body == ep_out[h].body
            seen == ep_out[h].seen
        IN  body.kind # "none" =>
                /\ seen.kind = "return"
                /\ body.kind = "raise" =>
                       /\ seen.value.status = "error"
                       /\ seen.value.message = body.text
                /\ body.kind = "return" => seen = body

BodyRaisedAndBodyReturned ==
    /\ ep_out["get_hk_indices"].body = Raised("Exception", "timeout")
    /\ ep_out["get_hk_indices"].seen = Returned(wrap_response("error", "none", "timeout"))
    /\ ep_out["get_fund_ranking"].body = Raised("Exception", "")
    /\ ep_out["get_treasury_yields"].body = Returned([rows |-> "bare_list"])
    /\ ep_out["get_treasury_yields"].seen = Returned([rows |-> "bare_list"])

\* C22: a failed computation is not cached as a success: no entry the store
\* holds is an error-shaped or empty payload, and a cold call whose upstream
\* fetch failed leaves no entry behind.
ErrorShaped(value) == value.shape \in {"error", "empty_list"}

FailuresNotCached ==
    /\ \A k \in ComputeKeys : cs_store[k] # NoValue => ~ErrorShaped(cs_store[k].value)
    /\ cs_last.key # "none" /\ cs_last.fetch # "rows" => cs_store[cs_last.key] = NoValue

\* C23: while its market stays in session, a market job goes at most one
\* trading-hours cadence plus one trigger interval without calling func,
\* whatever the minute of the hour its trigger was created at.
InSessionRefresh ==
    tg_job.kind = "market" =>
        tg_run <= REFRESH_INTERVALS.trading_hours[tg_job.market] \div 60 + tg_job.every

\* C24: no firing of a market_cn or market_us job at which the market is out of
\* session calls func.
OffSessionStop ==
    /\ tg_job.kind = "market" /\ tg_job.market \in {"market_cn", "market_us"}
    /\ tg_fired.kind = "market"
    /\ ~tg_fired.session
    => ~tg_fired.invoked

\* C25: two successive calls of func by a warmup job that are both made out of
\* trading hours are at least non_trading_interval_minutes apart, and every
\* firing in trading hours calls func.
NonTradingCadence ==
    tg_job.kind = "warmup" /\ tg_fired.kind = "warmup" =>
        /\ tg_fired.session => tg_fired.invoked
        /\ tg_fired.invoked /\ ~tg_fired.session /\ tg_prev.at >= 0 /\ ~tg_prev.session
           => tg_fired.at - tg_prev.at >= tg_job.non_trading

\* the calls of client c that returned true and whose timestamp, the clock they
\* read on entry, lies in the window (t - window_size, t]
AcceptedIn(c, t) ==
    {i \in 1..Len(rl_log) :
        /\ rl_log[i].client = c /\ rl_log[i].allowed
        /\ t - window_size < rl_log[i].t /\ rl_log[i].t <= t}

\* C26: under every interleaving of concurrent is_allowed calls, no client has
\* more than requests_per_minute accepted calls with a timestamp in any window
\* (t - 60 s, t].
SlidingWindowUnderConcurrency ==
    \A i \in 1..Len(rl_log) :
        Cardinality(AcceptedIn(rl_log[i].client, rl_log[i].t)) <= RequestsPerMinute

\* the calls of client c among the first n logged that returned true and whose
\* timestamp lies in the window (t - window_size, t]
AcceptedBefore(c, t, n) == {i \in AcceptedIn(c, t) : i <= n}

\* the first n logged calls each took the lock at the clock it had read
Prompt(n) == \A i \in 1..n : rl_log[i].t = rl_log[i].done

AkEnded == ak.pc = "done" /\ ak.max_retries >= 1

\* C28: for max_retries >= 1 akshare_call_with_retry ends, after at most
\* max_retries invocations of func; it returns at the first invocation that
\* succeeds; when every invocation failed with a transient error it made
\* max_retries of them and raises what the last one raised; it sleeps between
\* attempts only, and with use_throttle it passes the gate once before each.
BoundedRetry ==
    /\ [](ak.max_retries >= 1 => ak.calls <= ak.max_retries)
    /\ [](AkEnded /\ ak.result = "returned" =>
             ak.calls = ak.retryable_fails + 1 /\ ak.sleeps = ak.calls - 1)
    /\ [](AkEnded /\ ak.result = "raised" /\ ak.retryable_fails = ak.calls =>
             /\ ak.calls = ak.max_retries
             /\ ak.thrown = ak.last_raised
             /\ ak.sleeps = ak.calls - 1)
    /\ [](ak.max_retries >= 1 =>
             ak.gates = IF ak.use_throttle THEN ak.calls ELSE 0)
    /\ (ak.pc \in {"try", "sleep"} ~> ak.pc = "done")

AllAttemptsTransient ==
    /\ AkEnded /\ ak.max_retries = 3 /\ ak.use_throttle
    /\ ak.result = "raised" /\ ak.retryable_fails = 3
    /\ ak.calls = 3 /\ ak.sleeps = 2 /\ ak.gates = 3
    /\ ak.thrown = ak.last_raised

\* the configured segments of a market's session, each a pair of times of day
SegmentsOf(market) ==
    IF market = "market_cn"
    THEN {TRADING_HOURS[market].morning, TRADING_HOURS[market].afternoon}
    ELSE {TRADING_HOURS[market].session}

\* the time of day t lies within tol seconds of an instant at which the segment
\* is open; a segment whose start is after its end is open across midnight
NearSegment(t, segment, tol) ==
    IF segment[1] <= segment[2]
    THEN segment[1] - tol <= t /\ t <= segment[2] + tol
    ELSE t >= segment[1] - tol \/ t <= segment[2] + tol

\* C29: on a trading day is_trading_time(market, tol) is true exactly at the
\* instants within tol minutes of an instant at which one of the market's
\* configured segments is open, and with tol = 0 it agrees with is_trading_hours.
ToleranceWidensSegments ==
    /\ w_res.fn = "is_trading_time"
    /\ w_res.market \in DOMAIN TRADING_HOURS
    /\ ConfigGet(TRADING_HOURS[w_res.market], "weekdays_only", TRUE)
           => ~NonTradingDay(bj_now, td_memo.dates)
    => /\ w_res.result <=>
              \E segment \in SegmentsOf(w_res.market) :
                  NearSegment(TimeOf(bj_now), segment, w_res.tol * 60)
       /\ w_res.tol = 0 => (w_res.result <=> is_trading_hours(w_res.market, bj_now))

\* C30: get_ranking answers from the cache alone. It returns "ok", with at most
\* limit gainers and at most limit losers, exactly when its lookup found an entry
\* of the new structure under the normalised fund type; otherwise it returns
\* "warming_up" with empty rankings; and it starts a refresh thread only when it
\* found no refresh lock. The upstream fetch is a step of the refresh threads only.
RankingServedFromCache ==
    f_out # NoResponse =>
        /\ f_out.status \in {"ok", "warming_up"}
        /\ f_out.status = "ok" <=> NewStructure(f_out.data)
        /\ f_out.status = "ok" =>
               /\ f_out.fund_type \in FUND_TYPE_KEYWORDS
               /\ f_out.gainers <= f_out.limit
               /\ f_out.losers <= f_out.limit
        /\ f_out.status = "warming_up" => f_out.gainers = 0 /\ f_out.losers = 0
        /\ f_out.spawned => ~f_out.lock

====
